---- MODULE Spec2Model ----
(***************************************************************************)
(* Model of src/main.py: the project-to-PDF documentation generator.       *)
(*                                                                         *)
(* A string is a sequence of one-character strings, a path is a sequence   *)
(* of segments (pathlib's .parts).  The run is the module-level            *)
(* configuration load followed by main(); the two loops of main (the       *)
(* filter comprehension and the render loop) take one step per file.       *)
(* fnmatch is modelled for POSIX (os.path.normcase leaves names as they    *)
(* are) and for patterns over literals, "*" and "?".                       *)
(***************************************************************************)
EXTENDS Naturals, Sequences, FiniteSets, TLC

VARIABLES
    pc,             \* position of the process in the script
    EXCLUDE_DIRS,   \* main.py:52
    EXCLUDE_FILES,  \* main.py:53
    project_path,   \* main.py:114
    all_files,      \* main.py:124
    disk,           \* content of the files opened so far, by path
    scan_idx,       \* position of the comprehension of main.py:126-128
    target_files,   \* main.py:126
    i,              \* main.py:139, the enumerate index
    toc_items,      \* main.py:133
    html_parts,     \* main.py:132
    full_html,      \* main.py:221
    stdout,         \* what print() has written
    output_file     \* whether OUTPUT_PDF_NAME has been written by this run

vars == <<pc, EXCLUDE_DIRS, EXCLUDE_FILES, project_path, all_files, disk,
          scan_idx, target_files, i, toc_items, html_parts, full_html,
          stdout, output_file>>

(***************************************************************************)
(* Bounds and input sets                                                   *)
(***************************************************************************)
\* most regular files the scanned tree holds
MaxFiles == 2

\* scan roots given on the command line: Path("ab")
RootPaths == { << <<"a", "b">> >> }

\* paths of regular files, relative to the scan root:
\* b, ab, ab/a, a/b/a, a/b/ab
RelPaths ==
    { << <<"b">> >>,
      << <<"a", "b">> >>,
      << <<"a", "b">>, <<"a">> >>,
      << <<"a">>, <<"b">>, <<"a">> >>,
      << <<"a">>, <<"b">>, <<"a", "b">> >> }

\* wildcard patterns a configuration may list: a*, ?b, a?b
Patterns == { <<"a", "*">>, <<"?", "b">>, <<"a", "?", "b">> }

\* the lists exclude_dirs and exclude_files may be: empty, one pattern, or
\* the two patterns a?b, ?b
PatternLists ==
    { <<>> } \cup { <<p>> : p \in Patterns }
             \cup { << <<"a", "?", "b">>, <<"?", "b">> >> }

\* f.read(1024) of main.py:92
ProbeChars == 1024

\* bytes the text layer opened at main.py:91 reads and decodes at a time
ChunkSize == 8192

\* offset of the first byte of a file that is not valid UTF-8 (0: there is
\* none); the bytes before it are ASCII, one byte to a character
BadOffsets == { 0, ProbeChars, ProbeChars + 1, ChunkSize + 1 }

SeqsUpTo(S, n) == UNION { [1..k -> S] : k \in 0..n }

Range(s) == { s[k] : k \in DOMAIN s }

IsInjective(s) == \A m, n \in DOMAIN s : s[m] = s[n] => m = n

(***************************************************************************)
(* fnmatch.fnmatch(name, pat): the pattern is translated to a regular      *)
(* expression, which must match the whole name.                            *)
(***************************************************************************)
\* translate with "?" left a literal character
translate_NoQuestion(pat) ==
    [k \in DOMAIN pat |->
        IF pat[k] = "*" THEN [op |-> "any_run"]
        ELSE [op |-> "literal", ch |-> pat[k]]]

\* fnmatch.translate: "*" becomes ".*", "?" becomes ".", any other
\* character stands for itself
translate(pat) ==
    [k \in DOMAIN pat |->
        IF pat[k] = "*" THEN [op |-> "any_run"]
        ELSE IF pat[k] = "?" THEN [op |-> "any_char"]
        ELSE [op |-> "literal", ch |-> pat[k]]]

\* the positions of name the expression can be at after one more token
step(tok, name, at) ==
    IF tok.op = "any_run"
    THEN { n \in 0..Len(name) : \E m \in at : m <= n }
    ELSE IF tok.op = "any_char"
    THEN { m + 1 : m \in { n \in at : n < Len(name) } }
    ELSE { m + 1 : m \in { n \in at : n < Len(name) /\ name[n + 1] = tok.ch } }

RECURSIVE run(_, _, _, _)
run(res, name, k, at) ==
    IF k > Len(res) THEN at
    ELSE run(res, name, k + 1, step(res[k], name, at))

\* re.match of the translated pattern, anchored at both ends
re_match(res, name) == Len(name) \in run(res, name, 1, {0})

fnmatch(name, pat) == re_match(translate(pat), name)

(***************************************************************************)
(* pathlib                                                                 *)
(***************************************************************************)
IsPrefix(r, p) == Len(r) <= Len(p) /\ SubSeq(p, 1, Len(r)) = r

\* Path.relative_to: the parts of path below root_path; ValueError when
\* path is not below root_path
relative_to(path, root_path) ==
    IF IsPrefix(root_path, path)
    THEN [raises |-> FALSE, parts |-> SubSeq(path, Len(root_path) + 1, Len(path))]
    ELSE [raises |-> TRUE, parts |-> <<>>]

\* Path.name
name_of(path) == path[Len(path)]

\* Path.parent.parts
parent_parts(path) == SubSeq(path, 1, Len(path) - 1)

\* Path.as_posix: the parts joined by "/"
RECURSIVE as_posix(_)
as_posix(parts) ==
    IF Len(parts) = 0 THEN <<>>
    ELSE IF Len(parts) = 1 THEN parts[1]
    ELSE parts[1] \o <<"/">> \o as_posix(Tail(parts))

(***************************************************************************)
(* is_excluded, main.py:56-82                                              *)
(***************************************************************************)
\* is_excluded looking at the immediate parent directory alone
is_excluded_ParentOnly(path, root_path) ==
    IF \E k \in DOMAIN EXCLUDE_FILES : fnmatch(name_of(path), EXCLUDE_FILES[k])
    THEN TRUE
    ELSE IF relative_to(path, root_path).raises
    THEN TRUE
    ELSE LET relative_path == relative_to(path, root_path).parts
         IN  /\ Len(parent_parts(relative_path)) > 0
             /\ \E k \in DOMAIN EXCLUDE_DIRS :
                    fnmatch(name_of(parent_parts(relative_path)), EXCLUDE_DIRS[k])

\* is_excluded looping over relative_path.parts, the file name included
is_excluded_AllParts(path, root_path) ==
    IF \E k \in DOMAIN EXCLUDE_FILES : fnmatch(name_of(path), EXCLUDE_FILES[k])
    THEN TRUE
    ELSE IF relative_to(path, root_path).raises
    THEN TRUE
    ELSE LET relative_path == relative_to(path, root_path).parts
         IN  \E n \in DOMAIN relative_path :
                \E k \in DOMAIN EXCLUDE_DIRS :
                    fnmatch(relative_path[n], EXCLUDE_DIRS[k])

is_excluded(path, root_path) ==
    IF \E k \in DOMAIN EXCLUDE_FILES : fnmatch(name_of(path), EXCLUDE_FILES[k])
    THEN TRUE
    ELSE IF relative_to(path, root_path).raises
    THEN TRUE
    ELSE LET relative_path == relative_to(path, root_path).parts
         IN  \E n \in DOMAIN parent_parts(relative_path) :
                \E k \in DOMAIN EXCLUDE_DIRS :
                    fnmatch(parent_parts(relative_path)[n], EXCLUDE_DIRS[k])

(***************************************************************************)
(* is_binary, main.py:85-99                                                *)
(***************************************************************************)
\* the bytes f.read(1024) decodes: whole chunks until 1024 characters
ProbeWindow == ChunkSize * ((ProbeChars + ChunkSize - 1) \div ChunkSize)

\* whether the first n bytes of a file decode as UTF-8
decodes(bad, n) == bad = 0 \/ bad > n

\* is_binary returning False from the UnicodeDecodeError clause
is_binary_DecodeErrorAsText(bad, io_error) ==
    IF io_error THEN [ret |-> TRUE, out |-> "read_error"]
    ELSE IF ~decodes(bad, ProbeWindow) THEN [ret |-> FALSE, out |-> "binary_skipped"]
    ELSE [ret |-> FALSE, out |-> "none"]

\* the value is_binary returns and the line it prints; io_error: open or
\* read raises an exception other than UnicodeDecodeError
is_binary(bad, io_error) ==
    IF io_error THEN [ret |-> TRUE, out |-> "read_error"]
    ELSE IF ~decodes(bad, ProbeWindow) THEN [ret |-> TRUE, out |-> "binary_skipped"]
    ELSE [ret |-> FALSE, out |-> "none"]

(***************************************************************************)
(* The run                                                                 *)
(***************************************************************************)
NoPath == << <<"?">> >>

Init ==
    /\ pc = "load_config"
    /\ EXCLUDE_DIRS = <<>>
    /\ EXCLUDE_FILES = <<>>
    /\ project_path = NoPath
    /\ all_files = <<>>
    /\ disk = <<>>
    /\ scan_idx = 0
    /\ target_files = <<>>
    /\ i = 0
    /\ toc_items = <<>>
    /\ html_parts = <<>>
    /\ full_html = [toc |-> <<>>, body |-> <<>>]
    /\ stdout = <<>>
    /\ output_file = "untouched"

\* the except clauses without their exit()
LoadConfigFails_NoExit ==
    /\ pc = "load_config"
    /\ \E why \in {"config_not_found", "config_malformed"} :
          stdout' = Append(stdout, [msg |-> why, path |-> NoPath])
    /\ pc' = "main"
    /\ UNCHANGED <<EXCLUDE_DIRS, EXCLUDE_FILES, project_path, all_files, disk,
                   scan_idx, target_files, i, toc_items, html_parts,
                   full_html, output_file>>

\* main.py:37-46, config.json is absent or is not JSON: exit()
LoadConfigFails ==
    /\ pc = "load_config"
    /\ \E why \in {"config_not_found", "config_malformed"} :
          stdout' = Append(stdout, [msg |-> why, path |-> NoPath])
    /\ pc' = "exited"
    /\ UNCHANGED <<EXCLUDE_DIRS, EXCLUDE_FILES, project_path, all_files, disk,
                   scan_idx, target_files, i, toc_items, html_parts,
                   full_html, output_file>>

\* main.py:37-53, config.json is loaded
LoadConfig ==
    /\ pc = "load_config"
    /\ EXCLUDE_DIRS' \in PatternLists
    /\ EXCLUDE_FILES' \in PatternLists
    /\ pc' = "main"
    /\ UNCHANGED <<project_path, all_files, disk, scan_idx, target_files, i,
                   toc_items, html_parts, full_html, stdout, output_file>>

\* main.py:113-119, the argument is no directory: return
MainNotADirectory ==
    /\ pc = "main"
    /\ project_path' \in RootPaths
    /\ stdout' = Append(stdout, [msg |-> "not_a_directory", path |-> project_path'])
    /\ pc' = "returned"
    /\ UNCHANGED <<EXCLUDE_DIRS, EXCLUDE_FILES, all_files, disk, scan_idx,
                   target_files, i, toc_items, html_parts, full_html,
                   output_file>>

\* main.py:113-124, the argument is a directory: every regular file below
\* it, in the order rglob yields them
Walk ==
    /\ pc = "main"
    /\ project_path' \in RootPaths
    /\ \E rels \in { s \in SeqsUpTo(RelPaths, MaxFiles) : IsInjective(s) } :
          all_files' = [k \in DOMAIN rels |-> project_path' \o rels[k]]
    /\ stdout' = Append(stdout, [msg |-> "start", path |-> project_path'])
    /\ scan_idx' = 1
    /\ pc' = "filter"
    /\ UNCHANGED <<EXCLUDE_DIRS, EXCLUDE_FILES, disk, target_files, i,
                   toc_items, html_parts, full_html, output_file>>

\* main.py:126-128, one file of the comprehension, dropped by is_excluded
\* (is_binary is not called)
FilterExcluded ==
    /\ pc = "filter"
    /\ scan_idx <= Len(all_files)
    /\ is_excluded(all_files[scan_idx], project_path)
    /\ scan_idx' = scan_idx + 1
    /\ UNCHANGED <<pc, EXCLUDE_DIRS, EXCLUDE_FILES, project_path, all_files,
                   disk, target_files, i, toc_items, html_parts, full_html,
                   stdout, output_file>>

\* main.py:126-128, one file of the comprehension, probed by is_binary
FilterProbe ==
    /\ pc = "filter"
    /\ scan_idx <= Len(all_files)
    /\ ~is_excluded(all_files[scan_idx], project_path)
    /\ \E bad \in BadOffsets, io_error \in BOOLEAN :
          LET p == all_files[scan_idx]
              r == is_binary(bad, io_error)
          IN  /\ io_error => bad = 0   \* nothing is decoded of such a file
              /\ disk' = Append(disk, [path |-> p, bad |-> bad, io_error |-> io_error])
              /\ stdout' = IF r.out = "none" THEN stdout
                           ELSE Append(stdout, [msg |-> r.out, path |-> p])
              /\ target_files' = IF r.ret THEN target_files
                                 ELSE Append(target_files, p)
    /\ scan_idx' = scan_idx + 1
    /\ UNCHANGED <<pc, EXCLUDE_DIRS, EXCLUDE_FILES, project_path, all_files,
                   i, toc_items, html_parts, full_html, output_file>>

\* main.py:129-137, the comprehension is over
StartRender ==
    /\ pc = "filter"
    /\ scan_idx > Len(all_files)
    /\ stdout' = Append(stdout, [msg |-> "count", path |-> NoPath])
    /\ html_parts' = <<>>
    /\ toc_items' = <<>>
    /\ i' = 0
    /\ pc' = "render"
    /\ UNCHANGED <<EXCLUDE_DIRS, EXCLUDE_FILES, project_path, all_files, disk,
                   scan_idx, target_files, full_html, output_file>>

\* the content of a probed file
bad_of(path) == (CHOOSE e \in Range(disk) : e.path = path).bad

\* the anchor made without the index
anchor_for_Constant(idx) == <<"file-", 0>>

\* main.py:142, the anchor of the file at index idx of target_files
anchor_for(idx) == <<"file-", idx>>

\* main.py:145-152, whether the body of the try raises: read_text raises
\* an OSError (read_error) or a UnicodeDecodeError (the content is not
\* UTF-8 throughout), or highlight raises (highlight_error)
render_raises(read_error, bad, highlight_error) ==
    read_error \/ bad # 0 \/ highlight_error

\* the section appended after the try, whether or not it raised
add_section_Always(parts, raised, anchor, relative_path_str) ==
    Append(parts, [id |-> anchor, h2 |-> relative_path_str])

\* the section put at the head of html_parts
add_section_Prepend(parts, raised, anchor, relative_path_str) ==
    IF raised THEN parts
    ELSE <<[id |-> anchor, h2 |-> relative_path_str]>> \o parts

\* main.py:154-160, html_parts after the try
add_section(parts, raised, anchor, relative_path_str) ==
    IF raised THEN parts
    ELSE Append(parts, [id |-> anchor, h2 |-> relative_path_str])

\* the error of one file ending the run
on_file_error_Abort(raised) == IF raised THEN "aborted" ELSE "render"

\* main.py:162-163, where the loop goes on after the except clause
on_file_error(raised) == "render"

\* main.py:139-163, one iteration of the render loop
RenderFile ==
    /\ pc = "render"
    /\ i < Len(target_files)
    /\ \E read_error \in BOOLEAN, highlight_error \in BOOLEAN :
          LET file_path == target_files[i + 1]
              relative_path_str == as_posix(relative_to(file_path, project_path).parts)
              anchor == anchor_for(i)
              raised == render_raises(read_error, bad_of(file_path), highlight_error)
          IN  /\ toc_items' = Append(toc_items, <<relative_path_str, anchor>>)
              /\ html_parts' = add_section(html_parts, raised, anchor, relative_path_str)
              /\ stdout' =
                    IF raised
                    THEN Append(stdout, [msg |-> "processing_error", path |-> file_path])
                    ELSE stdout
              /\ pc' = on_file_error(raised)
    /\ i' = i + 1
    /\ UNCHANGED <<EXCLUDE_DIRS, EXCLUDE_FILES, project_path, all_files,
                   disk, scan_idx, target_files, full_html, output_file>>

\* main.py:166-234, the table of contents and the document
Assemble ==
    /\ pc = "render"
    /\ i >= Len(target_files)
    /\ full_html' =
          [toc  |-> [k \in DOMAIN toc_items |->
                        [href |-> toc_items[k][2], text |-> toc_items[k][1]]],
           body |-> html_parts]
    /\ pc' = "export"
    /\ UNCHANGED <<EXCLUDE_DIRS, EXCLUDE_FILES, project_path, all_files, disk,
                   scan_idx, target_files, i, toc_items, html_parts, stdout,
                   output_file>>

\* main.py:237-245, write_pdf writes the file or raises
Export ==
    /\ pc = "export"
    /\ \E ok \in BOOLEAN :
          /\ output_file' = IF ok THEN "written" ELSE "failed"
          /\ stdout' = Append(Append(stdout, [msg |-> "saving", path |-> NoPath]),
                              [msg |-> IF ok THEN "pdf_done" ELSE "pdf_error",
                               path |-> NoPath])
    /\ pc' = "done"
    /\ UNCHANGED <<EXCLUDE_DIRS, EXCLUDE_FILES, project_path, all_files, disk,
                   scan_idx, target_files, i, toc_items, html_parts, full_html>>

Next ==
    \/ LoadConfigFails
    \/ LoadConfig
    \/ MainNotADirectory
    \/ Walk
    \/ FilterExcluded
    \/ FilterProbe
    \/ StartRender
    \/ RenderFile
    \/ Assemble
    \/ Export

Spec == Init /\ [][Next]_vars

\* the script runs its next statement while it has one
FairSpec == Spec /\ WF_vars(Next)

(***************************************************************************)
(* Vocabulary of the properties                                            *)
(***************************************************************************)
\* shell-wildcard semantics, by induction on the pattern: the empty
\* pattern matches the empty name; "*" followed by rest matches a name some
\* suffix of which rest matches; "?" or a literal followed by rest matches
\* a name that begins with any character, or with that literal, and whose
\* remainder rest matches
RECURSIVE WildcardMatches(_, _)
WildcardMatches(name, pat) ==
    IF pat = <<>> THEN name = <<>>
    ELSE IF Head(pat) = "*"
    THEN \E k \in 0..Len(name) :
            WildcardMatches(SubSeq(name, k + 1, Len(name)), Tail(pat))
    ELSE /\ name # <<>>
         /\ (Head(pat) = "?" \/ Head(pat) = Head(name))
         /\ WildcardMatches(Tail(name), Tail(pat))

MatchesAny(name, pats) == \E k \in DOMAIN pats : WildcardMatches(name, pats[k])

Files == Range(all_files)

\* the path of a discovered file relative to the scan root, and its
\* ancestor directory segments
Rel(p) == SubSeq(p, Len(project_path) + 1, Len(p))

Ancestors(p) == SubSeq(Rel(p), 1, Len(Rel(p)) - 1)

Heading(p) == as_posix(Rel(p))

Printed(msg, p) == \E k \in DOMAIN stdout : stdout[k] = [msg |-> msg, path |-> p]

Assembled == pc \in {"export", "done"}

\* p has no entry in the table of contents and no section, in the lists
\* and in the document
Absent(p) ==
    /\ p \notin Range(target_files)
    /\ \A k \in DOMAIN toc_items : toc_items[k][1] # Heading(p)
    /\ \A k \in DOMAIN html_parts : html_parts[k].h2 # Heading(p)
    /\ \A k \in DOMAIN full_html.toc : full_html.toc[k].text # Heading(p)
    /\ \A k \in DOMAIN full_html.body : full_html.body[k].h2 # Heading(p)

Probed(p) == \E e \in Range(disk) : e.path = p

ProbeOf(p) == CHOOSE e \in Range(disk) : e.path = p

SectionsOf(p) == { k \in DOMAIN full_html.body : full_html.body[k].h2 = Heading(p) }

EntriesOf(p) == { k \in DOMAIN full_html.toc : full_html.toc[k].text = Heading(p) }

(***************************************************************************)
(* C1                                                                      *)
(***************************************************************************)
\* C1: toc_items and html_parts have the same length and the k-th entry
\* names the file and anchor of the k-th section, in the lists and in the
\* assembled document, in every state of a run.
C1_TocMatchesSections ==
    /\ Len(toc_items) = Len(html_parts)
    /\ \A k \in DOMAIN toc_items \cap DOMAIN html_parts :
          toc_items[k] = <<html_parts[k].h2, html_parts[k].id>>
    /\ Len(full_html.toc) = Len(full_html.body)
    /\ \A k \in DOMAIN full_html.toc \cap DOMAIN full_html.body :
          /\ full_html.toc[k].text = full_html.body[k].h2
          /\ full_html.toc[k].href = full_html.body[k].id

(***************************************************************************)
(* C2                                                                      *)
(***************************************************************************)
Kept(p) ==
    /\ Probed(p)
    /\ ~is_binary(ProbeOf(p).bad, ProbeOf(p).io_error).ret
    /\ ~is_excluded(p, project_path)

\* C2 as stated: every discovered file that is_excluded and is_binary let
\* through has exactly one section in the assembled document.
C2_ExactlyOneSection ==
    Assembled => \A p \in Files : Kept(p) => Cardinality(SectionsOf(p)) = 1

\* C2 amended: such a file has at most one section in the assembled
\* document; it has one exactly when reading and highlighting it raised
\* no error, and otherwise none and the error is printed.
C2_OneSectionUnlessError ==
    Assembled =>
        \A p \in Files : Kept(p) =>
            /\ Cardinality(SectionsOf(p)) <= 1
            /\ Cardinality(SectionsOf(p)) = 1 <=> ~Printed("processing_error", p)

C2_Witness ==
    /\ pc = "done"
    /\ \E p, q \in Files :
          /\ Kept(p) /\ ProbeOf(p).bad > ProbeWindow /\ SectionsOf(p) = {}
          /\ Kept(q) /\ Cardinality(SectionsOf(q)) = 1

(***************************************************************************)
(* C3                                                                      *)
(***************************************************************************)
\* C3: a discovered file whose name matches a pattern of exclude_files is
\* excluded by is_excluded and has no table-of-contents entry and no
\* section, at whatever depth it lies.
C3_FileNameExcluded ==
    \A p \in Files :
        MatchesAny(name_of(p), EXCLUDE_FILES) =>
            is_excluded(p, project_path) /\ Absent(p)

C3_Witness ==
    /\ pc = "done"
    /\ Len(full_html.body) > 0
    /\ \E p \in Files :
          /\ Len(Rel(p)) > 1
          /\ \E k \in DOMAIN EXCLUDE_FILES :
                /\ "?" \in Range(EXCLUDE_FILES[k])
                /\ WildcardMatches(name_of(p), EXCLUDE_FILES[k])
          /\ ~MatchesAny(name_of(p), EXCLUDE_DIRS)

(***************************************************************************)
(* C4                                                                      *)
(***************************************************************************)
AncestorMatches(p) ==
    \E n \in DOMAIN Ancestors(p) : MatchesAny(Ancestors(p)[n], EXCLUDE_DIRS)

\* C4: a discovered file with an ancestor directory segment that matches a
\* pattern of exclude_dirs is excluded by is_excluded and has no
\* table-of-contents entry and no section.
C4_AncestorExcluded ==
    \A p \in Files : AncestorMatches(p) => is_excluded(p, project_path) /\ Absent(p)

\* the matching segment is not the immediate parent, the name matches no
\* file pattern, and another file is in the document
C4_Witness ==
    /\ pc = "done"
    /\ Len(full_html.body) > 0
    /\ \E p \in Files :
          /\ Len(Ancestors(p)) = 2
          /\ MatchesAny(Ancestors(p)[1], EXCLUDE_DIRS)
          /\ ~MatchesAny(Ancestors(p)[2], EXCLUDE_DIRS)
          /\ ~MatchesAny(name_of(p), EXCLUDE_FILES)

(***************************************************************************)
(* C5                                                                      *)
(***************************************************************************)
\* C5: a file no single ancestor segment of which matches a pattern of
\* exclude_dirs, and whose name matches no pattern of exclude_files, is not
\* excluded by is_excluded.
C5_WholeSegmentOnly ==
    \A p \in Files :
        (~AncestorMatches(p) /\ ~MatchesAny(name_of(p), EXCLUDE_FILES)) =>
            ~is_excluded(p, project_path)

\* patterns of exclude_dirs match the two ancestor segments joined by "/",
\* the file name and the name of the scan root, and the file is kept
C5_Witness ==
    \E p \in Files :
        /\ ~AncestorMatches(p)
        /\ Len(Ancestors(p)) = 2
        /\ MatchesAny(as_posix(Ancestors(p)), EXCLUDE_DIRS)
        /\ MatchesAny(name_of(p), EXCLUDE_DIRS)
        /\ Len(project_path) > 0
        /\ MatchesAny(name_of(project_path), EXCLUDE_DIRS)
        /\ p \in Range(target_files)
        /\ pc = "done"
        /\ SectionsOf(p) # {}

(***************************************************************************)
(* C6                                                                      *)
(***************************************************************************)
\* C6: a probed file whose first 1024 bytes do not decode as UTF-8 is
\* reported binary by is_binary, a notice is printed, and it has no
\* table-of-contents entry and no section; a file whose probe fails to
\* read is reported binary too, the error is printed, and it is skipped.
C6_UndecodableSkipped ==
    \A e \in Range(disk) :
        /\ (~e.io_error /\ ~decodes(e.bad, ProbeChars)) =>
              /\ is_binary(e.bad, e.io_error).ret
              /\ Printed("binary_skipped", e.path)
              /\ Absent(e.path)
        /\ e.io_error =>
              /\ is_binary(e.bad, e.io_error).ret
              /\ Printed("read_error", e.path)
              /\ Absent(e.path)

C6_Witness ==
    /\ pc = "done"
    /\ Len(full_html.body) > 0
    /\ \E e \in Range(disk) : ~e.io_error /\ e.bad > 0 /\ e.bad <= ProbeChars

(***************************************************************************)
(* C7                                                                      *)
(***************************************************************************)
\* C7: once the scan has started, the run reaches the export step with
\* every discovered file filtered and every target file processed,
\* whatever files fail.
C7_RunReachesExport ==
    (pc = "filter") ~>
        /\ pc = "export"
        /\ scan_idx = Len(all_files) + 1
        /\ i = Len(target_files)
        /\ Len(toc_items) = Len(target_files)

\* the export step is reached although the first target file failed, and
\* the second has its section
C7_Witness ==
    /\ pc = "export"
    /\ Len(target_files) = 2
    /\ Printed("processing_error", target_files[1])
    /\ \E k \in DOMAIN html_parts : html_parts[k].h2 = Heading(target_files[2])

(***************************************************************************)
(* C8                                                                      *)
(***************************************************************************)
Said(msg) == \E k \in DOMAIN stdout : stdout[k].msg = msg

\* C8: in a run where config.json is absent or malformed, or the scan root
\* is no directory, the process has stopped without scanning and the output
\* file is untouched; the export step is reached only after the scan began.
C8_NoOutputOnFatalError ==
    /\ (Said("config_not_found") \/ Said("config_malformed")) =>
          /\ pc = "exited"
          /\ project_path = NoPath
          /\ all_files = <<>> /\ scan_idx = 0
          /\ output_file = "untouched"
    /\ Said("not_a_directory") =>
          /\ pc = "returned"
          /\ all_files = <<>> /\ scan_idx = 0
          /\ output_file = "untouched"
    /\ (pc \in {"export", "done"} \/ output_file # "untouched") => Said("start")

C8_Witness == pc = "exited" /\ Said("config_not_found") /\ output_file = "untouched"

(***************************************************************************)
(* C9                                                                      *)
(***************************************************************************)
Distinct(s) == \A m \in DOMAIN s : \A n \in (m + 1)..Len(s) : s[m] # s[n]

AnchorsDistinct ==
    /\ Distinct([k \in DOMAIN toc_items |-> toc_items[k][2]])
    /\ Distinct([k \in DOMAIN html_parts |-> html_parts[k].id])
    /\ Distinct([k \in DOMAIN full_html.toc |-> full_html.toc[k].href])
    /\ Distinct([k \in DOMAIN full_html.body |-> full_html.body[k].id])

\* one section headed by the relative path, one entry, the entry's link
\* being the section's anchor
OneSectionOneEntry(p) ==
    /\ Cardinality(SectionsOf(p)) = 1
    /\ Cardinality(EntriesOf(p)) = 1
    /\ \A m \in EntriesOf(p), n \in SectionsOf(p) :
          full_html.toc[m].href = full_html.body[n].id

ValidUtf8(p) == Probed(p) /\ ProbeOf(p).bad = 0

EntriesFor(sec) ==
    { k \in DOMAIN toc_items : toc_items[k] = <<sec.h2, sec.id>> }

\* C10: every section agrees with exactly one table-of-contents entry, the
\* sections are in the order of their entries, and
\* len(html_parts) <= len(toc_items) <= len(target_files).
C10_SectionsSubsequence ==
    /\ \A k \in DOMAIN html_parts : Cardinality(EntriesFor(html_parts[k])) = 1
    /\ \A m, n \in DOMAIN html_parts :
          m < n => \A a \in EntriesFor(html_parts[m]), b \in EntriesFor(html_parts[n]) : a < b
    /\ Len(html_parts) <= Len(toc_items)
    /\ Len(toc_items) <= Len(target_files)

\* the first target file failed and has an entry alone; the second is
\* rendered, and its section, the first of html_parts, agrees with the
\* second entry
C10_Witness ==
    /\ pc = "render"
    /\ Len(toc_items) = 2
    /\ Len(html_parts) = 1
    /\ html_parts[1].id = toc_items[2][2]

====
